---- MODULE Spec2Model ----
(***************************************************************************)
(* OLYMPUS 2.0 python/auth: the sliding-window rate limiter                *)
(* (rate_limit.py), the guards (permissions.py) and the token path         *)
(* (core.py).                                                              *)
(*                                                                         *)
(* Strings are sequences of one-character strings, so that formatting,     *)
(* splitting and stripping are computed and not assumed.  An Optional      *)
(* value is <<>> for None and <<v>> for a present value v.  Times are      *)
(* integer milliseconds; time.time() seconds are milliseconds / 1000.      *)
(***************************************************************************)
EXTENDS Integers, Sequences, FiniteSets, TLC

VARIABLES
    requests,   \* RateLimiter.requests: key -> list of timestamps (defaultdict)
    clock,      \* the wall clock read by time.time(), in ms
    log,        \* completed check_rate_limit calls, oldest first (history)
    pc,         \* concurrent callers: position of each thread inside check
    loc,        \* concurrent callers: locals of each thread
    key_in,     \* key derivation: the (request, prefix) under derivation
    key_out,    \* key derivation: Optional derived key
    guard_in,   \* guards: the user and the arguments the guards were made with
    guard_out,  \* guards: Optional outcome of the guard evaluated last
    guard_run,  \* guards: name of the guard evaluated last ("" before any)
    auth        \* one request on its way through get_current_user and a guard

vars == <<requests, clock, log, pc, loc, key_in, key_out, guard_in, guard_out,
          guard_run, auth>>

---------------------------------------------------------------------------
(* Optional values and strings *)

None == <<>>
Some(v) == <<v>>
Val(o) == o[1]

\* Python truthiness of an Optional[str]: None and "" are falsy.
Truthy(o) == o # None /\ Len(Val(o)) > 0

BSeq(S, n) == UNION {[1..m -> S] : m \in 0..n}

Max2(a, b) == IF a >= b THEN a ELSE b

S_user == <<":", "u", "s", "e", "r", ":">>
S_ip == <<":", "i", "p", ":">>
S_unknown == <<"u", "n", "k", "n", "o", "w", "n">>
S_api == <<"a", "p", "i">>
S_auth == <<"a", "u", "t", "h">>
S_strict == <<"s", "t", "r", "i", "c", "t">>

\* str.split(",")[0]: the text before the first comma (all of it if none).
RECURSIVE SplitFirst(_)
SplitFirst(s) ==
    IF s = <<>> \/ Head(s) = "," THEN <<>>
    ELSE <<Head(s)>> \o SplitFirst(Tail(s))

RECURSIVE LStrip(_)
LStrip(s) == IF s # <<>> /\ Head(s) = " " THEN LStrip(Tail(s)) ELSE s

RECURSIVE RStrip(_)
RStrip(s) ==
    IF s # <<>> /\ s[Len(s)] = " " THEN RStrip(SubSeq(s, 1, Len(s) - 1)) ELSE s

\* str.strip()
Strip(s) == RStrip(LStrip(s))

---------------------------------------------------------------------------
(* RateLimiter._get_key *)

\* A request as _get_key reads it: the x-user-id header, the
\* x-forwarded-for header, and request.client.host (None: no client).
Request(u, f, c) == [user_id |-> u, forwarded |-> f, client |-> c]

\* Mutant: the forwarded address is preferred over the user identifier.
GetKeyIpFirst(request, prefix) ==
    IF Truthy(request.forwarded)
    THEN prefix \o S_ip \o Strip(SplitFirst(Val(request.forwarded)))
    ELSE IF Truthy(request.user_id)
    THEN prefix \o S_user \o Val(request.user_id)
    ELSE prefix \o S_ip \o
         (IF request.client # None THEN Val(request.client) ELSE S_unknown)

\* Mutant: the scope prefix is left out of the key.
GetKeyNoPrefix(request, prefix) ==
    IF Truthy(request.user_id)
    THEN S_user \o Val(request.user_id)
    ELSE S_ip \o
         (IF Truthy(request.forwarded)
          THEN Strip(SplitFirst(Val(request.forwarded)))
          ELSE IF request.client # None THEN Val(request.client)
          ELSE S_unknown)

GetKey(request, prefix) ==
    IF Truthy(request.user_id)
    THEN prefix \o S_user \o Val(request.user_id)
    ELSE prefix \o S_ip \o
         (IF Truthy(request.forwarded)
          THEN Strip(SplitFirst(Val(request.forwarded)))
          ELSE IF request.client # None THEN Val(request.client)
          ELSE S_unknown)

---------------------------------------------------------------------------
(* Bounds *)

MaxLen == 3        \* longest header value drawn for key derivation
MaxCalls == 3      \* completed check_rate_limit calls in one run
MaxTicks == 2      \* the clock stops advancing after MaxTicks half seconds

MsPerSec == 1000   \* window_ms / 1000

ClockSteps == {0, 500}
MaxClock == MaxTicks * 500

---------------------------------------------------------------------------
(* RateLimiter: pure parts *)

\* self.requests[key] on a defaultdict(list): a missing key reads as [].
Lookup(reqs, key) == IF key \in DOMAIN reqs THEN reqs[key] ELSE <<>>

\* Mutant: a record left empty is evicted from the map.
StoreEvictEmpty(reqs, key, list) ==
    IF list = <<>>
    THEN [k \in DOMAIN reqs \ {key} |-> reqs[k]]
    ELSE [k \in DOMAIN reqs \cup {key} |-> IF k = key THEN list ELSE reqs[k]]

\* self.requests[key] = list
Store(reqs, key, list) ==
    [k \in DOMAIN reqs \cup {key} |-> IF k = key THEN list ELSE reqs[k]]

\* Mutant: a timestamp exactly at the cutoff survives.
CleanupKeepBoundary(list, cutoff) == SelectSeq(list, LAMBDA t : t >= cutoff)

\* _cleanup's list comprehension: [t for t in list if t > cutoff]
Cleanup(list, cutoff) == SelectSeq(list, LAMBDA t : t > cutoff)

\* Mutant: one request more than max_requests is admitted.
AllowedOffByOne(count, max_requests) == ~(count > max_requests)

\* line 62: if count >= max_requests: return False
Allowed(count, max_requests) == ~(count >= max_requests)

\* Mutant: the admitted request itself is not deducted.
RemainingNoDeduct(count, max_requests) == Max2(0, max_requests - count)

\* line 59: remaining = max(0, max_requests - count - 1)
Remaining(count, max_requests) == Max2(0, max_requests - count - 1)

\* line 60: reset_at = now + (window_ms / 1000); window_ms / 1000 seconds are
\* window_ms milliseconds.
ResetAt(now, window_ms) == now + window_ms

\* line 39: cutoff = time.time() - (window_ms / 1000)
Cutoff(t, window_ms) == t - window_ms

\* Mutant: a denied attempt is recorded too.
RecordAfterAlways(pruned, now, allowed) == Append(pruned, now)

\* lines 62-65: the record is appended to only when the call is admitted.
RecordAfter(pruned, now, allowed) ==
    IF allowed THEN Append(pruned, now) ELSE pruned

\* Python int(x) of x = ms / 1000: truncation toward zero.
IntSeconds(ms) == IF ms >= 0 THEN ms \div MsPerSec ELSE -((-ms) \div MsPerSec)

\* line 86: retry_after = int(reset_at - time.time())
RetryAfter(reset_at, t) == IntSeconds(reset_at - t)

---------------------------------------------------------------------------
(* Call sites and callers of the admission runs *)

\* create_rate_limit_dependency(window_ms, max_requests, prefix): dependencies
\* on the three scope prefixes of the pre-configured limiters, with small
\* limits, two of them created on the default "api" prefix.
Site(p, w, m) == [prefix |-> p, window_ms |-> w, max_requests |-> m]

Sites ==
    { Site(S_api, 1000, 2), Site(S_api, 1500, 1),
      Site(S_auth, 1500, 1), Site(S_strict, 1000, 0) }

Prefixes == {S_api, S_auth, S_strict}

\* One caller identified by x-user-id, one by its forwarded address.
LimiterRequests ==
    { Request(Some(<<"u">>), None, Some(<<"9">>)),
      Request(None, Some(<<"7", ",", "8">>), Some(<<"9">>)) }

---------------------------------------------------------------------------
(* check_rate_limit, run to completion (one caller at a time) *)

\* RateLimiter.check (lines 53-66) inside check_rate_limit (lines 81-107).
\* d1 is the time that passes between the clock read of line 54 and the one
\* of line 39, d2 the time up to the clock read of line 86.
RunCheck(calls, site, request, d1, d2) ==
    LET key == GetKey(request, site.prefix)
        now == clock
        t_cleanup == now + d1
        cutoff == Cutoff(t_cleanup, site.window_ms)
        before == IF key \in DOMAIN requests THEN Some(requests[key]) ELSE None
        pruned == Cleanup(Lookup(requests, key), cutoff)
        count == Len(pruned)
        remaining == Remaining(count, site.max_requests)
        reset_at == ResetAt(now, site.window_ms)
        allowed == Allowed(count, site.max_requests)
        t_retry == t_cleanup + d2
    IN  /\ Len(log) < calls
        /\ ~allowed \/ d2 = 0
        /\ t_retry <= MaxClock
        /\ requests' = Store(requests, key, RecordAfter(pruned, now, allowed))
        /\ clock' = t_retry
        /\ log' = Append(log,
                [ site |-> site, request |-> request, key |-> key,
                  now |-> now, t_cleanup |-> t_cleanup, t_retry |-> t_retry,
                  before |-> before,
                  allowed |-> allowed,
                  remaining |-> IF allowed THEN remaining ELSE 0,
                  reset_at |-> reset_at,
                  status |-> IF allowed THEN 200 ELSE 429,
                  retry_after |->
                      IF allowed THEN None
                      ELSE Some(RetryAfter(reset_at, t_retry)) ])
        /\ UNCHANGED <<pc, loc, key_in, key_out, guard_in, guard_out,
                   guard_run, auth>>

\* A run of at most MaxCalls calls.
CheckRateLimit(site, request, d1, d2) ==
    RunCheck(MaxCalls, site, request, d1, d2)

\* Time passes between two calls.
Tick ==
    /\ clock + 500 <= MaxClock
    /\ clock' = clock + 500
    /\ UNCHANGED <<requests, log, pc, loc, key_in, key_out, guard_in, guard_out,
                   guard_run, auth>>

\* The parts of the state a run does not use stay as they are here.
NoKeyIn == [request |-> Request(None, None, None), prefix |-> <<>>]
NoGuardIn == [user |-> <<>>, min_role |-> None]
NoAuth == [stage |-> "none"]

LimiterIdle ==
    /\ requests = <<>>
    /\ clock = 0
    /\ log = <<>>
    /\ pc = <<>>
    /\ loc = <<>>

KeyIdle == key_in = NoKeyIn /\ key_out = None

GuardIdle == guard_in = NoGuardIn /\ guard_out = None /\ guard_run = ""

AuthIdle == auth = NoAuth

\* RateLimiter.__init__: an empty map; no call made yet.
Init ==
    /\ requests = <<>>
    /\ clock = 0
    /\ log = <<>>
    /\ pc = <<>>
    /\ loc = <<>>
    /\ KeyIdle
    /\ GuardIdle
    /\ AuthIdle

Next ==
    \/ \E site \in Sites, request \in LimiterRequests, d1, d2 \in ClockSteps :
           CheckRateLimit(site, request, d1, d2)
    \/ Tick

Spec == Init /\ [][Next]_vars

---------------------------------------------------------------------------
(* Reading the history *)

Called == log # <<>>
Last == log[Len(log)]
BeforeList(c) == IF c.before = None THEN <<>> ELSE Val(c.before)
WindowOf(c) == c.site.window_ms
MaxOf(c) == c.site.max_requests

\* The calls made so far on the key of call number n, call n included.
SameKey(n) == {i \in 1..n : log[i].key = log[n].key}

\* The call made on the key of call number n just before it (0: none).
PrevOnKey(n) ==
    LET earlier == SameKey(n) \ {n}
    IN  IF earlier = {} THEN 0
        ELSE CHOOSE i \in earlier : \A j \in earlier : j <= i

---------------------------------------------------------------------------
(* Claims on check_rate_limit run to completion *)

\* C2: a check that finds count >= max_requests after pruning returns
\* (false, 0, now + window) and leaves the key's record equal to the pruned
\* record: the denied attempt is not recorded.
C2_DeniedNotRecorded ==
    Called =>
        LET c == Last
            kept == SelectSeq(BeforeList(c),
                              LAMBDA t : t > c.t_cleanup - WindowOf(c))
        IN  Len(kept) >= MaxOf(c) =>
                /\ c.allowed = FALSE
                /\ c.remaining = 0
                /\ c.reset_at = c.now + WindowOf(c)
                /\ requests[c.key] = kept

\* A denied call on a key that holds a timestamp.
C2_Witness ==
    /\ Called
    /\ ~Last.allowed
    /\ Len(requests[Last.key]) >= 1

\* C3: a check that finds count < max_requests after pruning appends exactly
\* the one timestamp now and returns
\* (true, max(0, max_requests - count - 1), now + window).
C3_AdmittedRecorded ==
    Called =>
        LET c == Last
            kept == SelectSeq(BeforeList(c),
                              LAMBDA t : t > c.t_cleanup - WindowOf(c))
            count == Len(kept)
        IN  count < MaxOf(c) =>
                /\ c.allowed = TRUE
                /\ requests[c.key] = kept \o <<c.now>>
                /\ c.remaining = Max2(0, MaxOf(c) - count - 1)
                /\ c.reset_at = c.now + WindowOf(c)

\* An admitted call on a key that already held a live timestamp.
C3_Witness ==
    /\ Called
    /\ Last.allowed
    /\ Len(requests[Last.key]) = 2
    /\ Last.remaining = 0

\* C4: M >= 1 consecutive checks on a fresh key, all made with the same
\* (window, M) and less than one window after the first, are admitted with
\* remaining M-1, ..., 0; the next one is denied with remaining 0 and a
\* retry_after of at most window / 1000 seconds.
C4_WindowSequence ==
    Called =>
        LET n == Len(log)
            c == Last
            calls == SameKey(n)
            k == Cardinality(calls)
            first == CHOOSE i \in calls : \A j \in calls : i <= j
        IN  ( /\ \A i \in calls : log[i].site = c.site
              /\ MaxOf(c) >= 1
              /\ c.t_cleanup - log[first].now < WindowOf(c) )
            => /\ k <= MaxOf(c) => c.allowed /\ c.remaining = MaxOf(c) - k
               /\ k = MaxOf(c) + 1 =>
                     /\ ~c.allowed
                     /\ c.remaining = 0
                     /\ Val(c.retry_after) * MsPerSec <= WindowOf(c)

\* The third check of a key limited to two is denied.
C4_Witness ==
    /\ Len(log) = 3
    /\ \A i \in 1..3 : log[i].key = log[1].key /\ log[i].site.max_requests = 2
    /\ log[1].remaining = 1 /\ log[2].remaining = 0
    /\ ~log[3].allowed

\* The record of key k, as an Optional: None while the key is not in the map.
RecordOf(reqs, k) == IF k \in DOMAIN reqs THEN Some(reqs[k]) ELSE None

\* The (scope prefix, caller) pairs of the admission runs.
Pairs == Prefixes \X LimiterRequests
PairOf(c) == <<c.site.prefix, c.request>>

\* C5: a check leaves the record of every other (scope, identity) pair
\* unchanged, and its outcome is decided by the calls of its own pair alone:
\* when the pair was always checked through one call site, the check is
\* admitted iff fewer than max_requests of the pair's own admitted checks are
\* still inside the window.
C5_KeyIsolation ==
    [][ log' # log =>
          LET c == log'[Len(log')]
              own == {i \in 1..Len(log) : PairOf(log[i]) = PairOf(c)}
              live == {i \in own : /\ log[i].allowed
                                   /\ log[i].now > c.t_cleanup - WindowOf(c)}
          IN  /\ \A pr \in Pairs \ {PairOf(c)} :
                    RecordOf(requests', GetKey(pr[2], pr[1]))
                        = RecordOf(requests, GetKey(pr[2], pr[1]))
              /\ (\A i \in own : log[i].site = c.site)
                    => (c.allowed <=> Cardinality(live) < MaxOf(c)) ]_vars

\* A caller uses up the one-request budget of an "api" call site; a second
\* caller is then admitted through the same call site, and the first caller
\* is admitted under "auth", all within the window.
C5_Witness ==
    /\ Len(log) = 3
    /\ log[1].site = Site(S_api, 1500, 1) /\ log[1].allowed
    /\ log[2].site = log[1].site /\ log[2].request # log[1].request
    /\ log[2].allowed
    /\ log[3].site.prefix = S_auth /\ log[3].request = log[1].request
    /\ log[3].allowed
    /\ Len(requests[log[1].key]) = 1

\* C6 (as claimed): after a denial reporting retry_after = r, the next check
\* of that key, made through the same call site (max_requests >= 1) exactly
\* r seconds after the denial was reported, is admitted.
C6_RetryAfterAdmits ==
    Called =>
        LET n == Len(log)
            c == Last
            p == PrevOnKey(n)
        IN  ( /\ p # 0
              /\ ~log[p].allowed
              /\ log[p].site = c.site
              /\ MaxOf(c) >= 1
              /\ c.now = log[p].t_retry + Val(log[p].retry_after) * MsPerSec )
            => c.allowed

\* C7 (as claimed): with cutoff = now - window, exactly the timestamps older
\* than the cutoff are removed; every one at or after it is retained.
C7_PruneOlderThanNowCutoff ==
    Called =>
        LET c == Last
            kept == SelectSeq(BeforeList(c), LAMBDA t : t >= c.now - WindowOf(c))
        IN  requests[c.key] = IF c.allowed THEN kept \o <<c.now>> ELSE kept

\* C7 (amended): with cutoff = t - window, t being the clock as _cleanup reads
\* it (at or after now), exactly the previously recorded timestamps at or
\* before the cutoff are removed; every one strictly after it is retained, in
\* order, and counted for the decision.
C7_PruneAtOrBeforeCleanupCutoff ==
    Called =>
        LET c == Last
            cutoff == c.t_cleanup - WindowOf(c)
            kept == SelectSeq(BeforeList(c), LAMBDA t : t > cutoff)
            after == requests[c.key]
        IN  /\ c.t_cleanup >= c.now
            /\ after = IF c.allowed THEN kept \o <<c.now>> ELSE kept
            /\ \A i \in 1..Len(kept) : after[i] > cutoff
            /\ c.allowed <=> Len(kept) < MaxOf(c)

\* A call that removes a timestamp exactly at the cutoff and keeps a later one.
C7_Witness ==
    /\ Called
    /\ \E i, j \in DOMAIN BeforeList(Last) :
          /\ BeforeList(Last)[i] = Last.t_cleanup - WindowOf(Last)
          /\ BeforeList(Last)[j] > Last.t_cleanup - WindowOf(Last)
    /\ Len(requests[Last.key]) = 2

\* C9: a key enters the map only by a check of that key, admitted or denied,
\* and no key ever leaves the map.
C9_KeysNeverRemoved ==
    [][ /\ DOMAIN requests \subseteq DOMAIN requests'
        /\ log' # log =>
              /\ log'[Len(log')].key \in DOMAIN requests'
              /\ DOMAIN requests' = DOMAIN requests \cup {log'[Len(log')].key}
        /\ log' = log => DOMAIN requests' = DOMAIN requests ]_vars

\* A key created by a denied first check, whose record is empty.
C9_Witness ==
    /\ Called
    /\ Last.before = None
    /\ ~Last.allowed
    /\ requests[Last.key] = <<>>

---------------------------------------------------------------------------
(* RateLimiter.check called from several threads at once *)

NThreads == 2      \* threads calling check concurrently

Threads == 1..NThreads

NoLocals == <<>>

\* The threads race through the two call sites of the "api" prefix.
ConcSites == {site \in Sites : site.prefix = S_api}

InitConc ==
    /\ requests = <<>>
    /\ clock = 0
    /\ log = <<>>
    /\ pc = [t \in Threads |-> "idle"]
    /\ loc = [t \in Threads |-> NoLocals]
    /\ KeyIdle
    /\ GuardIdle
    /\ AuthIdle

Started == Len(log) + Cardinality({t \in Threads : pc[t] # "idle"})

\* lines 53-54: key = self._get_key(request, prefix); now = time.time()
Enter(t, site, request) ==
    /\ pc[t] = "idle"
    /\ Started < MaxCalls
    /\ loc' = [loc EXCEPT ![t] =
                 [site |-> site, request |-> request,
                  key |-> GetKey(request, site.prefix), now |-> clock]]
    /\ pc' = [pc EXCEPT ![t] = "cleanup"]
    /\ UNCHANGED <<requests, clock, log, key_in, key_out, guard_in, guard_out,
                   guard_run, auth>>

\* lines 39-40, right-hand side: the cutoff is computed and the list is read
\* and filtered (reading a missing key of the defaultdict inserts it).
CleanupFilter(t) ==
    /\ pc[t] = "cleanup"
    /\ LET l == loc[t]
           list == Lookup(requests, l.key)
       IN  /\ requests' = Store(requests, l.key, list)
           /\ loc' = [loc EXCEPT ![t] =
                 [site |-> l.site, request |-> l.request, key |-> l.key,
                  now |-> l.now, t_cleanup |-> clock,
                  before |-> RecordOf(requests, l.key),
                  filtered |-> Cleanup(list, Cutoff(clock, l.site.window_ms))]]
    /\ pc' = [pc EXCEPT ![t] = "store"]
    /\ UNCHANGED <<clock, log, key_in, key_out, guard_in, guard_out,
                   guard_run, auth>>

\* line 40, the assignment: self.requests[key] = <the filtered list>
CleanupStore(t) ==
    /\ pc[t] = "store"
    /\ requests' = Store(requests, loc[t].key, loc[t].filtered)
    /\ pc' = [pc EXCEPT ![t] = "count"]
    /\ UNCHANGED <<clock, log, loc, key_in, key_out, guard_in, guard_out,
                   guard_run, auth>>

\* line 58: count = len(self.requests[key])
Count(t) ==
    /\ pc[t] = "count"
    /\ LET l == loc[t]
       IN  loc' = [loc EXCEPT ![t] =
                 [site |-> l.site, request |-> l.request, key |-> l.key,
                  now |-> l.now, t_cleanup |-> l.t_cleanup,
                  before |-> l.before, filtered |-> l.filtered,
                  count |-> Len(Lookup(requests, l.key))]]
    /\ pc' = [pc EXCEPT ![t] = "decide"]
    /\ UNCHANGED <<requests, clock, log, key_in, key_out, guard_in, guard_out,
                   guard_run, auth>>

\* The history entry of the call thread t completes.
Completed(l, allowed) ==
    LET reset_at == ResetAt(l.now, l.site.window_ms)
    IN  [ site |-> l.site, request |-> l.request, key |-> l.key,
          now |-> l.now, t_cleanup |-> l.t_cleanup, t_retry |-> clock,
          before |-> l.before,
          allowed |-> allowed,
          remaining |-> IF allowed
                        THEN Remaining(l.count, l.site.max_requests) ELSE 0,
          reset_at |-> reset_at,
          status |-> IF allowed THEN 200 ELSE 429,
          retry_after |-> IF allowed THEN None
                          ELSE Some(RetryAfter(reset_at, clock)) ]

\* lines 62-63 and 85-100: the call is denied.
Deny(t) ==
    /\ pc[t] = "decide"
    /\ ~Allowed(loc[t].count, loc[t].site.max_requests)
    /\ log' = Append(log, Completed(loc[t], FALSE))
    /\ pc' = [pc EXCEPT ![t] = "idle"]
    /\ loc' = [loc EXCEPT ![t] = NoLocals]
    /\ UNCHANGED <<requests, clock, key_in, key_out, guard_in, guard_out,
                   guard_run, auth>>

\* lines 65-66: self.requests[key].append(now); the call is admitted.
Admit(t) ==
    /\ pc[t] = "decide"
    /\ Allowed(loc[t].count, loc[t].site.max_requests)
    /\ requests' = Store(requests, loc[t].key,
                         Append(Lookup(requests, loc[t].key), loc[t].now))
    /\ log' = Append(log, Completed(loc[t], TRUE))
    /\ pc' = [pc EXCEPT ![t] = "idle"]
    /\ loc' = [loc EXCEPT ![t] = NoLocals]
    /\ UNCHANGED <<clock, key_in, key_out, guard_in, guard_out,
                   guard_run, auth>>

NextConc ==
    \/ \E t \in Threads, site \in ConcSites, request \in LimiterRequests :
           Enter(t, site, request)
    \/ \E t \in Threads : CleanupFilter(t)
    \/ \E t \in Threads : CleanupStore(t)
    \/ \E t \in Threads : Count(t)
    \/ \E t \in Threads : Deny(t)
    \/ \E t \in Threads : Admit(t)
    \/ Tick

SpecConc == InitConc /\ [][NextConc]_vars

\* C1 (as claimed): however concurrent checks of one key interleave, the
\* calls admitted before a window has elapsed never exceed max_requests (all
\* calls of the key made through one call site).
C1_NoOverAdmission ==
    \A n \in 1..Len(log) :
        LET calls == SameKey(n)
            admitted == {i \in calls : log[i].allowed}
        IN  ( /\ \A i \in calls : log[i].site = log[n].site
              /\ \A i \in calls : clock - log[i].now < WindowOf(log[n]) )
            => Cardinality(admitted) <= Max2(0, MaxOf(log[n]))

---------------------------------------------------------------------------
(* Key derivation on its own: every small request *)

UserChars == {"u", "7"}
ForwardedChars == {"7", "8", ",", " "}

Optional(S) == {None} \cup {Some(v) : v \in S}

KeyRequests ==
    { Request(u, f, c) :
        u \in Optional(BSeq(UserChars, MaxLen)),
        f \in Optional(BSeq(ForwardedChars, MaxLen)),
        c \in Optional({<<"9">>, <<"7">>}) }

InitKey ==
    /\ LimiterIdle
    /\ GuardIdle
    /\ AuthIdle
    /\ key_in \in [request : KeyRequests, prefix : Prefixes]
    /\ key_out = None

\* key = self._get_key(request, prefix)   (line 53)
DeriveKey ==
    /\ key_out = None
    /\ key_out' = Some(GetKey(key_in.request, key_in.prefix))
    /\ UNCHANGED <<requests, clock, log, pc, loc, key_in, guard_in, guard_out,
                   guard_run, auth>>

NextKey == DeriveKey

SpecKey == InitKey /\ [][NextKey]_vars

\* ip is the left-most address of the chain fwd: fwd is blanks, ip, blanks,
\* and then nothing or a comma; ip holds no comma and no outer blank.
IsLeftMost(ip, fwd) ==
    /\ \A i \in 1..Len(ip) : ip[i] # ","
    /\ ip # <<>> => ip[1] # " " /\ ip[Len(ip)] # " "
    /\ \E a, b \in 0..Len(fwd) :
          /\ a + Len(ip) + b <= Len(fwd)
          /\ \A i \in 1..a : fwd[i] = " "
          /\ \A i \in 1..Len(ip) : fwd[a + i] = ip[i]
          /\ \A i \in 1..b : fwd[a + Len(ip) + i] = " "
          /\ a + Len(ip) + b < Len(fwd) => fwd[a + Len(ip) + b + 1] = ","

\* key is pre followed by tag and one more text, which P accepts.
KeyIs(key, pre, tag, P(_)) ==
    /\ Len(key) >= Len(pre) + Len(tag)
    /\ SubSeq(key, 1, Len(pre) + Len(tag)) = pre \o tag
    /\ P(SubSeq(key, Len(pre) + Len(tag) + 1, Len(key)))

\* C8 (as claimed): the identity is the user identifier if there is one,
\* else the left-most forwarded address, else the literal "unknown"; a
\* request with neither header maps to the scope's one "unknown" key.
C8_UnknownWithoutHeaders ==
    key_out # None =>
        LET r == key_in.request
            key == Val(key_out)
        IN  IF Truthy(r.user_id)
            THEN KeyIs(key, key_in.prefix, S_user, LAMBDA x : x = Val(r.user_id))
            ELSE IF Truthy(r.forwarded)
            THEN KeyIs(key, key_in.prefix, S_ip,
                       LAMBDA x : IsLeftMost(x, Val(r.forwarded)))
            ELSE KeyIs(key, key_in.prefix, S_ip, LAMBDA x : x = S_unknown)

\* C8 (amended): the identity is the x-user-id header if it is present and
\* not empty, else the left-most address of x-forwarded-for if that header is
\* present and not empty, else the host of the connection's peer if the
\* request has one, else the literal "unknown"; only requests with neither
\* header and no peer address map to the scope's one "unknown" key.
C8_PeerHostBeforeUnknown ==
    key_out # None =>
        LET r == key_in.request
            key == Val(key_out)
        IN  IF Truthy(r.user_id)
            THEN KeyIs(key, key_in.prefix, S_user, LAMBDA x : x = Val(r.user_id))
            ELSE IF Truthy(r.forwarded)
            THEN KeyIs(key, key_in.prefix, S_ip,
                       LAMBDA x : IsLeftMost(x, Val(r.forwarded)))
            ELSE IF r.client # None
            THEN KeyIs(key, key_in.prefix, S_ip, LAMBDA x : x = Val(r.client))
            ELSE KeyIs(key, key_in.prefix, S_ip, LAMBDA x : x = S_unknown)

\* An empty x-user-id and a chain " 7,8" give the key auth:ip:7.
C8_Witness ==
    /\ key_out = Some(S_auth \o S_ip \o <<"7">>)
    /\ key_in.request.user_id = Some(<<>>)
    /\ key_in.request.forwarded = Some(<<" ", "7", ",">>)

---------------------------------------------------------------------------
(* permissions.py: the role guard *)

\* Mutant: admin and developer change places in the hierarchy.
RoleLevelSwapped(role) ==
    IF role = Some("owner") THEN 100
    ELSE IF role = Some("admin") THEN 50
    ELSE IF role = Some("developer") THEN 75
    ELSE IF role = Some("viewer") THEN 25
    ELSE 0

\* ROLE_HIERARCHY.get(role, 0)
RoleLevel(role) ==
    IF role = Some("owner") THEN 100
    ELSE IF role = Some("admin") THEN 75
    ELSE IF role = Some("developer") THEN 50
    ELSE IF role = Some("viewer") THEN 25
    ELSE 0

\* OlympusClaims and AuthUser (core.py), as the guards read them.
\* class OlympusClaims
OlympusClaims(tid, role, slug, perms, tier, admin) ==
    [tenant_id |-> tid, tenant_role |-> role, tenant_slug |-> slug,
     permissions |-> perms, plan_tier |-> tier, is_platform_admin |-> admin]

\* The claims the guards read; tenant_slug and plan_tier left at None.
Claims(tid, role, perms, admin) ==
    OlympusClaims(tid, role, None, perms, None, admin)

AuthUser(verified, claims) ==
    [id |-> "s1", email |-> "e1", email_verified |-> verified, claims |-> claims]

\* Mutant: the guard hands back a copy without the permissions.
ReturnedStripped(user) ==
    [ok |-> TRUE,
     user |-> [user EXCEPT !.claims = [@ EXCEPT !.permissions = <<>>]]]

\* return user
Returned(user) == [ok |-> TRUE, user |-> user]

Forbidden(code, message, detail) ==
    [ok |-> FALSE, status |-> 403, code |-> code, message |-> message,
     detail |-> detail]

\* A detail that carries only code and message.
NoDetail == [plain |-> TRUE]

\* Python truthiness of an Optional[str] holding an atomic string.
TruthyName(o) == o # None /\ Val(o) # ""

\* Mutant: only the head of the list is looked at.
InListHeadOnly(x, list) == list # <<>> /\ list[1] = x

\* x in list
InList(x, list) == \E i \in 1..Len(list) : list[i] = x

\* Mutant: the wildcard is not honoured.
CheckPermissionNoWildcard(user, permission) ==
    IF ~InList(permission, user.claims.permissions)
    THEN Forbidden("AUTH_301", "Permission denied", [required |-> permission])
    ELSE Returned(user)

\* require_permission(permission) -> check_permission(user)
CheckPermission(user, permission) ==
    IF InList("*", user.claims.permissions) THEN Returned(user)
    ELSE IF ~InList(permission, user.claims.permissions)
    THEN Forbidden("AUTH_301", "Permission denied", [required |-> permission])
    ELSE Returned(user)

\* Mutant: every listed permission is required.
CheckPermissionsAll(user, permissions) ==
    IF InList("*", user.claims.permissions) THEN Returned(user)
    ELSE IF ~(\A i \in 1..Len(permissions) :
                 InList(permissions[i], user.claims.permissions))
    THEN Forbidden("AUTH_301", "Permission denied",
                   [required_any |-> permissions])
    ELSE Returned(user)

\* require_any_permission(permissions) -> check_permissions(user)
CheckPermissions(user, permissions) ==
    IF InList("*", user.claims.permissions) THEN Returned(user)
    ELSE IF ~(\E i \in 1..Len(permissions) :
                 InList(permissions[i], user.claims.permissions))
    THEN Forbidden("AUTH_301", "Permission denied",
                   [required_any |-> permissions])
    ELSE Returned(user)

\* Mutant: the wildcard permission passes the role check.
CheckRoleWildcardBypass(user, min_role) ==
    LET user_role == user.claims.tenant_role
    IN  IF InList("*", user.claims.permissions) THEN Returned(user)
        ELSE IF ~TruthyName(user_role)
        THEN Forbidden("AUTH_301", "No tenant role",
                       [required_role |-> min_role])
        ELSE IF RoleLevel(user_role) < RoleLevel(min_role)
        THEN Forbidden("AUTH_301", "Insufficient role",
                       [required_role |-> min_role, current_role |-> user_role])
        ELSE Returned(user)

\* Mutant: the ranks are compared before the role is looked for.
CheckRoleRankFirst(user, min_role) ==
    LET user_role == user.claims.tenant_role
    IN  IF RoleLevel(user_role) < RoleLevel(min_role)
        THEN Forbidden("AUTH_301", "Insufficient role",
                       [required_role |-> min_role, current_role |-> user_role])
        ELSE IF ~TruthyName(user_role)
        THEN Forbidden("AUTH_301", "No tenant role",
                       [required_role |-> min_role])
        ELSE Returned(user)

\* require_role(min_role) -> check_role(user)
CheckRole(user, min_role) ==
    LET user_role == user.claims.tenant_role
    IN  IF ~TruthyName(user_role)
        THEN Forbidden("AUTH_301", "No tenant role",
                       [required_role |-> min_role])
        ELSE IF RoleLevel(user_role) < RoleLevel(min_role)
        THEN Forbidden("AUTH_301", "Insufficient role",
                       [required_role |-> min_role, current_role |-> user_role])
        ELSE Returned(user)

\* Mutant: a platform admin needs no tenant.
CheckTenantAdminBypass(user) ==
    IF ~TruthyName(user.claims.tenant_id) /\ ~user.claims.is_platform_admin
    THEN Forbidden("AUTH_302", "Tenant context required", NoDetail)
    ELSE Returned(user)

\* require_tenant() -> check_tenant(user)
CheckTenant(user) ==
    IF ~TruthyName(user.claims.tenant_id)
    THEN Forbidden("AUTH_302", "Tenant context required", NoDetail)
    ELSE Returned(user)

\* require_verified_email(user)
CheckVerifiedEmail(user) ==
    IF ~user.email_verified
    THEN Forbidden("AUTH_102", "Email verification required", NoDetail)
    ELSE Returned(user)

\* require_platform_admin(user)
CheckPlatformAdmin(user) ==
    IF ~user.claims.is_platform_admin
    THEN Forbidden("AUTH_301", "Platform admin required", NoDetail)
    ELSE Returned(user)

GuardNames ==
    {"require_permission", "require_any_permission", "require_role",
     "require_tenant", "require_verified_email", "require_platform_admin"}

\* The guard named g, made with the arguments args, evaluated on user.
EvalGuard(g, user, args) ==
    CASE g = "require_permission" -> CheckPermission(user, args.permission)
      [] g = "require_any_permission" -> CheckPermissions(user, args.permissions)
      [] g = "require_role" -> CheckRole(user, args.min_role)
      [] g = "require_tenant" -> CheckTenant(user)
      [] g = "require_verified_email" -> CheckVerifiedEmail(user)
      [] g = "require_platform_admin" -> CheckPlatformAdmin(user)

RoleNames == {"owner", "admin", "developer", "viewer", "guest", ""}
PermissionLists == {<<>>, <<"*">>, <<"read">>, <<"read", "*">>}
PermissionNames == {"read", "write", "*"}
PermissionArgs == {<<>>, <<"read">>, <<"write">>, <<"write", "read">>}

Users ==
    { AuthUser(v, Claims(tid, role, perms, adm)) :
        v \in BOOLEAN,
        tid \in Optional({"t1", ""}),
        role \in Optional(RoleNames),
        perms \in PermissionLists,
        adm \in BOOLEAN }

InitGuard ==
    /\ LimiterIdle
    /\ KeyIdle
    /\ AuthIdle
    /\ guard_in \in [user : Users, min_role : Optional(RoleNames),
                     permission : PermissionNames,
                     permissions : PermissionArgs]
    /\ guard_out = None
    /\ guard_run = ""

\* One guard is evaluated on the user; guards may follow one another.
Evaluate(g) ==
    /\ guard_out' = Some(EvalGuard(g, guard_in.user, guard_in))
    /\ guard_run' = g
    /\ UNCHANGED <<requests, clock, log, pc, loc, key_in, key_out, guard_in,
                   auth>>

RequirePermission == Evaluate("require_permission")
RequireAnyPermission == Evaluate("require_any_permission")
RequireRole == Evaluate("require_role")
RequireTenant == Evaluate("require_tenant")
RequireVerifiedEmail == Evaluate("require_verified_email")
RequirePlatformAdmin == Evaluate("require_platform_admin")

NextGuard ==
    \/ RequirePermission
    \/ RequireAnyPermission
    \/ RequireRole
    \/ RequireTenant
    \/ RequireVerifiedEmail
    \/ RequirePlatformAdmin

SpecGuard == InitGuard /\ [][NextGuard]_vars

\* The guard g has just been evaluated.
Ran(g) == guard_out # None /\ guard_run = g

\* The rank of the specification: owner 100, admin 75, developer 50,
\* viewer 25, every other or absent role 0.
SpecRank(role) ==
    CASE role = Some("owner") -> 100
      [] role = Some("admin") -> 75
      [] role = Some("developer") -> 50
      [] role = Some("viewer") -> 25
      [] OTHER -> 0

\* C10 (as claimed): require_role(min_role) succeeds iff
\* rank(tenant_role) >= rank(min_role), for every pair of roles, unknown and
\* absent ones included.
C10_RoleIffRank ==
    Ran("require_role") =>
        ( Val(guard_out).ok
            <=> SpecRank(guard_in.user.claims.tenant_role)
                    >= SpecRank(guard_in.min_role) )

\* C10 (amended): require_role(min_role) succeeds iff tenant_role is present
\* and not empty and rank(tenant_role) >= rank(min_role); an absent or empty
\* tenant_role fails whatever min_role is.  require_role("admin") succeeds
\* for owner and admin and fails for developer, viewer and an absent role.
C10_RoleIffPresentAndRank ==
    Ran("require_role") =>
        LET role == guard_in.user.claims.tenant_role
            ok == Val(guard_out).ok
        IN  /\ ok <=> /\ role # None
                      /\ role # Some("")
                      /\ SpecRank(role) >= SpecRank(guard_in.min_role)
            /\ guard_in.min_role = Some("admin") =>
                  /\ role \in {Some("owner"), Some("admin")} => ok
                  /\ role \in {Some("developer"), Some("viewer"), None} => ~ok

\* An absent tenant_role is refused although min_role is an unknown role.
C10_Witness ==
    /\ Ran("require_role")
    /\ guard_in.min_role = Some("guest")
    /\ guard_in.user.claims.tenant_role = None
    /\ ~Val(guard_out).ok
    /\ Val(guard_out).message = "No tenant role"

---------------------------------------------------------------------------
(* Claims on the guards *)

ListSet(list) == {list[i] : i \in 1..Len(list)}

\* The user with the wildcard added to, or taken out of, the permissions.
WildcardTwin(user) ==
    LET perms == user.claims.permissions
        twin == IF \E i \in 1..Len(perms) : perms[i] = "*"
                THEN SelectSeq(perms, LAMBDA x : x # "*")
                ELSE perms \o <<"*">>
    IN  [user EXCEPT !.claims = [@ EXCEPT !.permissions = twin]]

\* C11: require_role, require_tenant, require_verified_email and
\* require_platform_admin give the same outcome for two contexts that differ
\* only in whether the permissions hold the wildcard: both succeed, or both
\* fail with the same error.
C11_WildcardLeavesOtherGuards ==
    \A g \in {"require_role", "require_tenant", "require_verified_email",
              "require_platform_admin"} :
        Ran(g) =>
            LET mine == Val(guard_out)
                other == EvalGuard(g, WildcardTwin(guard_in.user), guard_in)
            IN  /\ mine.ok = other.ok
                /\ ~mine.ok => mine = other

\* A developer holding the wildcard is refused where admin is required.
C11_Witness ==
    /\ Ran("require_role")
    /\ "*" \in ListSet(guard_in.user.claims.permissions)
    /\ guard_in.user.claims.tenant_role = Some("developer")
    /\ guard_in.min_role = Some("admin")
    /\ ~Val(guard_out).ok

\* C12: require_permission(perm) succeeds iff "*" or perm is in
\* ctx.permissions; otherwise it fails with a permission-denied error that
\* carries perm as the required permission.
C12_PermissionIffHeld ==
    Ran("require_permission") =>
        LET held == ListSet(guard_in.user.claims.permissions)
            out == Val(guard_out)
        IN  /\ out.ok <=> ("*" \in held \/ guard_in.permission \in held)
            /\ ~out.ok => /\ out.code = "AUTH_301"
                          /\ out.status = 403
                          /\ out.detail = [required |-> guard_in.permission]

\* The wildcard grants a permission that is not listed.
C12_Witness ==
    /\ Ran("require_permission")
    /\ guard_in.user.claims.permissions = <<"*">>
    /\ guard_in.permission = "write"
    /\ Val(guard_out).ok

\* C13: require_any_permission(perms) succeeds iff "*" is in ctx.permissions
\* or some element of perms is; otherwise, an empty perms included, it fails
\* with a permission-denied error that carries the list perms.
C13_AnyPermissionIffHeld ==
    Ran("require_any_permission") =>
        LET held == ListSet(guard_in.user.claims.permissions)
            out == Val(guard_out)
        IN  /\ out.ok <=> ( \/ "*" \in held
                            \/ ListSet(guard_in.permissions) \cap held # {} )
            /\ ~out.ok => /\ out.code = "AUTH_301"
                          /\ out.status = 403
                          /\ out.detail = [required_any |-> guard_in.permissions]

\* One of two listed permissions is held.
C13_Witness ==
    /\ Ran("require_any_permission")
    /\ guard_in.user.claims.permissions = <<"read">>
    /\ guard_in.permissions = <<"write", "read">>
    /\ Val(guard_out).ok

\* C14 (as claimed): require_role fails with "No tenant role" when
\* tenant_role is absent; when it is present with a rank below
\* rank(min_role) it fails with the error carrying required_role and
\* current_role; in all other cases it succeeds.
C14_RoleErrorsByAbsence ==
    Ran("require_role") =>
        LET role == guard_in.user.claims.tenant_role
            out == Val(guard_out)
        IN  IF role = None
            THEN /\ ~out.ok
                 /\ out.message = "No tenant role"
            ELSE IF SpecRank(role) < SpecRank(guard_in.min_role)
            THEN /\ ~out.ok
                 /\ out.detail = [required_role |-> guard_in.min_role,
                                  current_role |-> role]
            ELSE out.ok

\* C14 (amended): require_role fails with "No tenant role" when tenant_role
\* is absent or the empty string, before any rank comparison and whatever
\* min_role is; when tenant_role is present, not empty, and of a rank below
\* rank(min_role) it fails with the error carrying required_role and
\* current_role; in all other cases it succeeds.
C14_RoleErrorsByAbsenceOrEmpty ==
    Ran("require_role") =>
        LET role == guard_in.user.claims.tenant_role
            out == Val(guard_out)
        IN  IF role = None \/ role = Some("")
            THEN /\ ~out.ok
                 /\ out.code = "AUTH_301"
                 /\ out.message = "No tenant role"
                 /\ out.detail = [required_role |-> guard_in.min_role]
            ELSE IF SpecRank(role) < SpecRank(guard_in.min_role)
            THEN /\ ~out.ok
                 /\ out.code = "AUTH_301"
                 /\ out.message = "Insufficient role"
                 /\ out.detail = [required_role |-> guard_in.min_role,
                                  current_role |-> role]
            ELSE out.ok /\ out.user = guard_in.user

\* An absent role meets "No tenant role" although its rank is below owner's.
C14_Witness ==
    /\ Ran("require_role")
    /\ guard_in.user.claims.tenant_role = None
    /\ guard_in.min_role = Some("owner")
    /\ Val(guard_out).message = "No tenant role"

\* C15 (as claimed): require_tenant fails with the tenant-required error if
\* tenant_id is absent and succeeds whenever tenant_id is present.
C15_TenantByAbsence ==
    Ran("require_tenant") =>
        LET out == Val(guard_out)
        IN  IF guard_in.user.claims.tenant_id = None
            THEN ~out.ok /\ out.code = "AUTH_302"
            ELSE out.ok

\* C15 (amended): require_tenant fails with the tenant-required error if
\* tenant_id is absent or the empty string, and succeeds for every context
\* with a non-empty tenant_id, whatever its role, permissions and admin flag.
C15_TenantByAbsenceOrEmpty ==
    Ran("require_tenant") =>
        LET tid == guard_in.user.claims.tenant_id
            out == Val(guard_out)
        IN  IF tid = None \/ tid = Some("")
            THEN ~out.ok /\ out.code = "AUTH_302" /\ out.status = 403
            ELSE out.ok

\* A platform admin holding the wildcard, without a tenant, is refused.
C15_Witness ==
    /\ Ran("require_tenant")
    /\ guard_in.user.claims.tenant_id = None
    /\ guard_in.user.claims.is_platform_admin
    /\ "*" \in ListSet(guard_in.user.claims.permissions)
    /\ ~Val(guard_out).ok

\* The error code each guard may fail with.
ErrorCodeOf(g) ==
    CASE g = "require_tenant" -> "AUTH_302"
      [] g = "require_verified_email" -> "AUTH_102"
      [] OTHER -> "AUTH_301"

\* C16: every guard, on every context, either returns that same context or
\* fails with the one error kind listed for it, and no guard evaluation, in
\* any sequence, changes the context.
C16_GuardsTotalAndPure ==
    [][ /\ guard_in' = guard_in
        /\ guard_run' \in GuardNames
        /\ LET out == Val(guard_out')
           IN  IF out.ok
               THEN out = [ok |-> TRUE, user |-> guard_in.user]
               ELSE /\ out.status = 403
                    /\ out.code = ErrorCodeOf(guard_run') ]_vars

\* A guard succeeds after another guard failed on the same context.
C16_Witness ==
    /\ Ran("require_tenant")
    /\ Val(guard_out).ok
    /\ ~CheckVerifiedEmail(guard_in.user).ok
    /\ ~CheckPlatformAdmin(guard_in.user).ok
    /\ Val(guard_out).user = guard_in.user

---------------------------------------------------------------------------
(* core.py: decode_jwt, get_current_user, and a guard depending on them *)

\* Times, in seconds, that the verification time and the time claims take.
MaxTime == 2
Times == 0..MaxTime

\* SUPABASE_JWT_SECRET: "" when the environment does not set it.
Secrets == {"", "k1"}

\* The key a presented token was signed with.
SigningKeys == {"k1", "k2"}

\* The alg a presented token asserts in its header.
HeaderAlgs == {"HS256", "HS512", "none"}

\* The custom namespace of a payload; every field may be absent.
Namespace(tid, role, slug, perms, tier, admin) ==
    [tenant_id |-> tid, tenant_role |-> role, tenant_slug |-> slug,
     permissions |-> perms, plan_tier |-> tier, is_platform_admin |-> admin]

\* The JSON value null, where an object was expected.
Null == [json |-> "null"]

Body(sub, email, verified, olympus) ==
    [sub |-> sub, email |-> email, email_verified |-> verified,
     olympus |-> olympus]

Bodies ==
    { Body(None, None, None, None),
      Body(Some("s1"), Some("e1"), Some(TRUE),
           Some(Namespace(None, None, None, None, None, None))),
      Body(Some("s1"), Some("e1"), Some(TRUE),
           Some(Namespace(Some("t1"), Some("viewer"), Some("acme"),
                          Some(<<"read">>), Some("pro"), Some(FALSE)))),
      Body(Some("s1"), Some("e1"), Some(FALSE),
           Some(Namespace(None, Some("owner"), None, Some(<<"*">>), None,
                          Some(TRUE)))),
      Body(Some("s1"), Some("e1"), Some(TRUE),
           Some(Namespace(Some("t1"), Some("developer"), None,
                          Some(<<"write", "read", "write">>), None, None))),
      Body(Some("s1"), Some("e1"), Some(TRUE), Some(Null)) }

\* The claims of a token: exp, nbf and aud may be absent.
Payload(exp, nbf, aud, body) ==
    [exp |-> exp, nbf |-> nbf, aud |-> aud, body |-> body]

Payloads ==
    { Payload(exp, nbf, aud, body) :
        exp \in Optional(Times), nbf \in Optional(Times),
        aud \in Optional({"authenticated", "other"}), body \in Bodies }

\* A string that is not three base64url segments holding JSON.
Malformed == [form |-> "malformed"]

\* No Authorization header: HTTPBearer(auto_error=False) yields None.
NoCredentials == [form |-> "absent"]

Jws(alg, key, payload) ==
    [form |-> "jws", alg |-> alg, key |-> key, payload |-> payload]

Tokens ==
    {Malformed} \cup
    { Jws(alg, key, payload) :
        alg \in HeaderAlgs, key \in SigningKeys, payload \in Payloads }

Decoded(payload) == [ok |-> TRUE, payload |-> payload]

Raised(exc) == [ok |-> FALSE, exc |-> exc]

\* The registered claims as jwt.decode validates them, in its order:
\* nbf, then exp, then aud.
ValidateClaims(payload, audience, now) ==
    IF payload.nbf # None /\ Val(payload.nbf) > now
    THEN Raised("ImmatureSignatureError")
    ELSE IF payload.exp # None /\ Val(payload.exp) <= now
    THEN Raised("ExpiredSignatureError")
    ELSE IF payload.aud = None
    THEN Raised("MissingRequiredClaimError")
    ELSE IF Val(payload.aud) # audience
    THEN Raised("InvalidAudienceError")
    ELSE Decoded(payload)

\* Mutant: the audience is validated before the expiry.
ValidateClaimsAudFirst(payload, audience, now) ==
    IF payload.aud = None
    THEN Raised("MissingRequiredClaimError")
    ELSE IF Val(payload.aud) # audience
    THEN Raised("InvalidAudienceError")
    ELSE ValidateClaims(payload, audience, now)

\* Mutant: the claims are validated before the signature is verified.
JwtDecodeClaimsFirst(token, key, algorithms, audience, now) ==
    IF token.form = "malformed" THEN Raised("DecodeError")
    ELSE IF ~ValidateClaims(token.payload, audience, now).ok
    THEN ValidateClaims(token.payload, audience, now)
    ELSE IF ~InList(token.alg, algorithms)
    THEN Raised("InvalidAlgorithmError")
    ELSE IF token.key # key
    THEN Raised("InvalidSignatureError")
    ELSE Decoded(token.payload)

\* Mutant: the signature is not verified.
JwtDecodeUnverified(token, key, algorithms, audience, now) ==
    IF token.form = "malformed" THEN Raised("DecodeError")
    ELSE ValidateClaims(token.payload, audience, now)

\* Mutant: the expiry is validated after the audience.
JwtDecodeAudFirst(token, key, algorithms, audience, now) ==
    IF token.form = "malformed" THEN Raised("DecodeError")
    ELSE IF ~InList(token.alg, algorithms)
    THEN Raised("InvalidAlgorithmError")
    ELSE IF token.key # key
    THEN Raised("InvalidSignatureError")
    ELSE ValidateClaimsAudFirst(token.payload, audience, now)

\* Mutant: the alg the header asserts is used without looking it up in
\* algorithms.
JwtDecodeAnyAlg(token, key, algorithms, audience, now) ==
    IF token.form = "malformed" THEN Raised("DecodeError")
    ELSE IF token.alg # "none" /\ token.key # key
    THEN Raised("InvalidSignatureError")
    ELSE ValidateClaims(token.payload, audience, now)

\* jwt.decode(token, key, algorithms=..., audience=...): the segments are
\* parsed, the header's alg is looked up in algorithms, the signature is
\* verified with key, and then the claims are validated.
JwtDecode(token, key, algorithms, audience, now) ==
    IF token.form = "malformed" THEN Raised("DecodeError")
    ELSE IF ~InList(token.alg, algorithms)
    THEN Raised("InvalidAlgorithmError")
    ELSE IF token.key # key
    THEN Raised("InvalidSignatureError")
    ELSE ValidateClaims(token.payload, audience, now)

\* HTTPException(500, "JWT secret not configured")
ServerError(message) ==
    [ok |-> FALSE, status |-> 500, code |-> "", message |-> message,
     detail |-> NoDetail]

\* HTTPException(401, {"code": code, "message": message})
Unauthorized(code, message, exc) ==
    [ok |-> FALSE, status |-> 401, code |-> code, message |-> message,
     detail |-> [exc |-> exc]]

\* Mutant: the secret is looked at only once the token has been decoded.
DecodeJwtSecretLast(secret, token, now) ==
    LET r == JwtDecode(token, secret, <<"HS256">>, "authenticated", now)
    IN  IF r.ok
        THEN IF secret = "" THEN ServerError("JWT secret not configured")
             ELSE r
        ELSE IF r.exc = "ExpiredSignatureError"
        THEN Unauthorized("AUTH_105", "Token expired", r.exc)
        ELSE Unauthorized("AUTH_106", "Invalid token", r.exc)

\* decode_jwt(token), with SUPABASE_JWT_SECRET = secret, called at now.
DecodeJwt(secret, token, now) ==
    IF secret = "" THEN ServerError("JWT secret not configured")
    ELSE LET r == JwtDecode(token, secret, <<"HS256">>, "authenticated", now)
         IN  IF r.ok THEN r
             ELSE IF r.exc = "ExpiredSignatureError"
             THEN Unauthorized("AUTH_105", "Token expired", r.exc)
             ELSE Unauthorized("AUTH_106", "Invalid token", r.exc)

\* d.get(key, default) for an optional field.
Get(field, default) == IF field = None THEN default ELSE Val(field)

\* payload.get("olympus", {})
EmptyNamespace == Namespace(None, None, None, None, None, None)

\* Mutant: an absent email_verified counts as verified, an absent
\* is_platform_admin as set.
ExtractUserWrongDefaults(payload) ==
    LET olympus == Get(payload.body.olympus, EmptyNamespace)
        claims == OlympusClaims(olympus.tenant_id, olympus.tenant_role,
                                olympus.tenant_slug,
                                Get(olympus.permissions, <<>>),
                                olympus.plan_tier,
                                Get(olympus.is_platform_admin, TRUE))
    IN  [id |-> Get(payload.body.sub, ""),
         email |-> Get(payload.body.email, ""),
         email_verified |-> Get(payload.body.email_verified, TRUE),
         claims |-> claims]

\* get_current_user, lines 76-92: the user built from a decoded payload.
ExtractUser(payload) ==
    LET olympus == Get(payload.body.olympus, EmptyNamespace)
        claims == OlympusClaims(olympus.tenant_id, olympus.tenant_role,
                                olympus.tenant_slug,
                                Get(olympus.permissions, <<>>),
                                olympus.plan_tier,
                                Get(olympus.is_platform_admin, FALSE))
    IN  [id |-> Get(payload.body.sub, ""),
         email |-> Get(payload.body.email, ""),
         email_verified |-> Get(payload.body.email_verified, FALSE),
         claims |-> claims]

\* An exception that is not an HTTPException leaves the dependency.
Unhandled(exc) ==
    [ok |-> FALSE, status |-> 500, code |-> "", message |-> exc,
     detail |-> [exc |-> exc]]

\* get_current_user after decode_jwt returned payload: olympus.get(...) on
\* a null namespace raises AttributeError (line 79).
GetCurrentUser(payload) ==
    IF payload.body.olympus = Some(Null) THEN Unhandled("AttributeError")
    ELSE Returned(ExtractUser(payload))

Request0(secret, now, token) ==
    [stage |-> "received", secret |-> secret, now |-> now, token |-> token,
     steps |-> <<>>, payload |-> None, user |-> None, response |-> None]

\* A request carrying a bearer token reaches a route guarded by a dependency.
InitAuth ==
    /\ LimiterIdle
    /\ KeyIdle
    /\ GuardIdle
    /\ auth \in { Request0(secret, now, token) :
                    secret \in Secrets, now \in Times, token \in Tokens }

\* get_current_user, line 74: payload = decode_jwt(credentials.credentials)
VerifyToken ==
    /\ auth.stage = "received"
    /\ auth.token # NoCredentials
    /\ LET r == DecodeJwt(auth.secret, auth.token, auth.now)
       IN  auth' = IF r.ok
                   THEN [auth EXCEPT !.stage = "verified",
                                     !.steps = Append(@, "decode_jwt"),
                                     !.payload = Some(r.payload)]
                   ELSE [auth EXCEPT !.stage = "rejected",
                                     !.steps = Append(@, "decode_jwt"),
                                     !.response = Some(r)]
    /\ UNCHANGED <<requests, clock, log, pc, loc, key_in, key_out, guard_in,
                   guard_out, guard_run>>

\* get_current_user, lines 76-92
ExtractClaims ==
    /\ auth.stage = "verified"
    /\ LET r == GetCurrentUser(Val(auth.payload))
       IN  auth' = IF r.ok
                   THEN [auth EXCEPT !.stage = "extracted",
                                     !.steps = Append(@, "get_current_user"),
                                     !.user = Some(r.user)]
                   ELSE [auth EXCEPT !.stage = "crashed",
                                     !.steps = Append(@, "get_current_user"),
                                     !.response = Some(r)]
    /\ UNCHANGED <<requests, clock, log, pc, loc, key_in, key_out, guard_in,
                   guard_out, guard_run>>

\* The guard g evaluated on what Depends(get_current_user) returned.
GuardDependency(g) ==
    /\ auth.stage = "extracted"
    /\ \E min_role \in Optional(RoleNames), permission \in PermissionNames,
          permissions \in PermissionArgs :
         LET args == [user |-> Val(auth.user), min_role |-> min_role,
                      permission |-> permission, permissions |-> permissions]
             out == EvalGuard(g, args.user, args)
         IN  /\ guard_in' = args
             /\ guard_out' = Some(out)
             /\ guard_run' = g
             /\ auth' = [auth EXCEPT !.stage = "guarded",
                                     !.steps = Append(@, g),
                                     !.response = Some(out)]
    /\ UNCHANGED <<requests, clock, log, pc, loc, key_in, key_out>>

NextAuth ==
    \/ VerifyToken
    \/ ExtractClaims
    \/ \E g \in GuardNames : GuardDependency(g)

SpecAuth == InitAuth /\ [][NextAuth]_vars

---------------------------------------------------------------------------
(* Claims on token verification *)

\* The token passes verification under the configured secret at auth.now.
TokenPasses ==
    /\ auth.secret # ""
    /\ auth.token.form = "jws"
    /\ auth.token.alg = "HS256"
    /\ auth.token.key = auth.secret
    /\ LET p == auth.token.payload
       IN  /\ p.nbf = None \/ Val(p.nbf) <= auth.now
           /\ p.exp = None \/ Val(p.exp) > auth.now
           /\ p.aud = Some("authenticated")

VerificationErrors == {"", "AUTH_105", "AUTH_106"}

\* C17: a guard outcome exists only for a request whose token was verified
\* and whose claims were extracted, in that order and before the guard; a
\* request whose verification fails is rejected with the verification error,
\* and no guard outcome is ever produced for it.
C17_VerifyThenExtractThenGuard ==
    /\ guard_out # None =>
          /\ TokenPasses
          /\ auth.steps = <<"decode_jwt", "get_current_user", guard_run>>
          /\ auth.payload = Some(auth.token.payload)
          /\ auth.user # None
          /\ guard_in.user = Val(auth.user)
          /\ auth.response = guard_out
    /\ auth.user # None =>
          /\ TokenPasses
          /\ auth.steps[1] = "decode_jwt"
          /\ auth.steps[2] = "get_current_user"
    /\ (auth.steps # <<>> /\ ~TokenPasses) =>
          /\ auth.stage = "rejected"
          /\ guard_out = None
          /\ auth.user = None
          /\ auth.response # None
          /\ ~Val(auth.response).ok
          /\ Val(auth.response).status \in {401, 500}
          /\ Val(auth.response).code \in VerificationErrors

\* A guard refused a request whose token had passed verification.
C17_Witness ==
    /\ auth.stage = "guarded"
    /\ guard_out # None
    /\ ~Val(guard_out).ok
    /\ Len(auth.steps) = 3

\* C18: with no signing secret configured, decode_jwt fails with the
\* server error for every token: never 401 or 403, never a payload.
C18_NoSecretIsServerError ==
    (auth.secret = "" /\ auth.steps # <<>>) =>
        /\ auth.stage = "rejected"
        /\ auth.payload = None
        /\ auth.response # None
        /\ ~Val(auth.response).ok
        /\ Val(auth.response).status = 500
        /\ Val(auth.response).message = "JWT secret not configured"

\* A token that a configured secret would accept meets the server error.
C18_Witness ==
    /\ auth.secret = ""
    /\ auth.token.form = "jws"
    /\ auth.token.alg = "HS256"
    /\ auth.token.payload.exp = Some(MaxTime)
    /\ auth.now < MaxTime
    /\ auth.token.payload.aud = Some("authenticated")
    /\ auth.stage = "rejected"
    /\ Val(auth.response).status = 500

\* The token carries a signature made with a key other than the secret.
SignedWithOtherSecret ==
    /\ auth.token.form = "jws"
    /\ auth.token.alg # "none"
    /\ auth.token.key # auth.secret

\* C19: with a secret configured, every token signed with a different
\* secret, whatever its expiry, audience and other claims, fails
\* verification with the invalid-token error.
C19_OtherSecretIsInvalid ==
    (auth.secret # "" /\ SignedWithOtherSecret /\ auth.steps # <<>>) =>
        /\ auth.stage = "rejected"
        /\ auth.payload = None
        /\ Val(auth.response).status = 401
        /\ Val(auth.response).code = "AUTH_106"

\* An expired token signed with another secret is invalid, not expired.
C19_Witness ==
    /\ auth.secret # ""
    /\ SignedWithOtherSecret
    /\ auth.token.alg = "HS256"
    /\ auth.token.payload.exp # None
    /\ Val(auth.token.payload.exp) < auth.now
    /\ auth.token.payload.aud = Some("authenticated")
    /\ auth.stage = "rejected"
    /\ Val(auth.response).code = "AUTH_106"

ExpiredBeforeNow ==
    /\ auth.token.form = "jws"
    /\ auth.token.payload.exp # None
    /\ Val(auth.token.payload.exp) < auth.now

\* C20 (as claimed): with a secret configured, every token whose expiry is
\* strictly before the verification time, whatever its signature, audience
\* and other claims, fails with the expired-token error.
C20_ExpiredWhateverSignature ==
    (auth.secret # "" /\ ExpiredBeforeNow /\ auth.steps # <<>>) =>
        /\ auth.stage = "rejected"
        /\ Val(auth.response).status = 401
        /\ Val(auth.response).code = "AUTH_105"

\* C20 (amended): with a secret configured, every token that asserts HS256,
\* is signed with the configured secret, has no not-before claim in the
\* future, and whose expiry is strictly before the verification time fails
\* with the expired-token error, whatever its audience and other claims.
C20_ExpiredWithGoodSignature ==
    ( /\ auth.secret # ""
      /\ ExpiredBeforeNow
      /\ auth.token.alg = "HS256"
      /\ auth.token.key = auth.secret
      /\ auth.token.payload.nbf = None \/ Val(auth.token.payload.nbf) <= auth.now
      /\ auth.steps # <<>> ) =>
        /\ auth.stage = "rejected"
        /\ auth.payload = None
        /\ Val(auth.response).status = 401
        /\ Val(auth.response).code = "AUTH_105"
        /\ Val(auth.response).message = "Token expired"

\* An expired token with a wrong audience is reported as expired.
C20_Witness ==
    /\ auth.secret # ""
    /\ ExpiredBeforeNow
    /\ auth.token.alg = "HS256"
    /\ auth.token.key = auth.secret
    /\ auth.token.payload.aud = Some("other")
    /\ auth.stage = "rejected"
    /\ Val(auth.response).code = "AUTH_105"

---------------------------------------------------------------------------
(* Claims on what decode_jwt accepts *)

\* C21 (as claimed): decode_jwt returns a payload only for a token signed
\* with the configured secret under HS256, not expired, whose audience is
\* "authenticated"; with a secret configured, a token with a mismatching
\* audience or asserting any other algorithm is rejected with the
\* invalid-token error.
C21_PayloadOnlyIfAcceptedElseInvalid ==
    /\ auth.payload # None =>
          /\ auth.secret # ""
          /\ auth.token.form = "jws"
          /\ auth.token.alg = "HS256"
          /\ auth.token.key = auth.secret
          /\ auth.token.payload.exp = None
                \/ Val(auth.token.payload.exp) > auth.now
          /\ auth.token.payload.aud = Some("authenticated")
    /\ ( /\ auth.secret # ""
         /\ auth.steps # <<>>
         /\ auth.token.form = "jws"
         /\ \/ auth.token.alg # "HS256"
            \/ auth.token.payload.aud = Some("other") ) =>
          /\ auth.stage = "rejected"
          /\ Val(auth.response).status = 401
          /\ Val(auth.response).code = "AUTH_106"

\* C21 (amended): decode_jwt returns a payload only for a token signed with
\* the configured secret under HS256, not expired, whose audience is
\* "authenticated"; with a secret configured, a token asserting any other
\* algorithm is rejected with the invalid-token error, and so is a token
\* with a mismatching audience unless it is signed with the configured
\* secret under HS256, past its not-before time and expired, in which case
\* it is rejected with the expired-token error.
C21_PayloadOnlyIfAcceptedElseInvalidOrExpired ==
    /\ auth.payload # None =>
          /\ auth.secret # ""
          /\ auth.token.form = "jws"
          /\ auth.token.alg = "HS256"
          /\ auth.token.key = auth.secret
          /\ auth.token.payload.exp = None
                \/ Val(auth.token.payload.exp) > auth.now
          /\ auth.token.payload.aud = Some("authenticated")
          /\ auth.payload = Some(auth.token.payload)
    /\ ( /\ auth.secret # ""
         /\ auth.steps # <<>>
         /\ auth.token.form = "jws"
         /\ \/ auth.token.alg # "HS256"
            \/ auth.token.payload.aud = Some("other") ) =>
          LET p == auth.token.payload
              expired_first ==
                  /\ auth.token.alg = "HS256"
                  /\ auth.token.key = auth.secret
                  /\ p.nbf = None \/ Val(p.nbf) <= auth.now
                  /\ p.exp # None /\ Val(p.exp) <= auth.now
          IN  /\ auth.stage = "rejected"
              /\ auth.payload = None
              /\ Val(auth.response).status = 401
              /\ Val(auth.response).code =
                     IF expired_first THEN "AUTH_105" ELSE "AUTH_106"

\* A token good in all but its audience is rejected as invalid.
C21_Witness ==
    /\ auth.secret # ""
    /\ auth.token.form = "jws"
    /\ auth.token.alg = "HS256"
    /\ auth.token.key = auth.secret
    /\ auth.token.payload.exp = Some(MaxTime)
    /\ auth.now < MaxTime
    /\ auth.token.payload.nbf = None
    /\ auth.token.payload.aud = Some("other")
    /\ auth.stage = "rejected"
    /\ Val(auth.response).code = "AUTH_106"

---------------------------------------------------------------------------
(* Claims on claims extraction *)

\* The value of an optional field, or the default when it is absent.
OrElse(field, default) == IF field = None THEN default ELSE field[1]

\* C22: claims extraction applies the default of every absent field and does
\* not fail: a verified payload without the custom namespace yields absent
\* tenant id, role and slug, no permissions and is_platform_admin = false;
\* an absent email_verified yields false, an absent subject the empty
\* identifier; fields that are present are taken over.
C22_DefaultsForAbsentFields ==
    ( /\ Len(auth.steps) >= 2
      /\ auth.token.payload.body.olympus # Some(Null) ) =>
        LET b == auth.token.payload.body
            ns == b.olympus
            u == Val(auth.user)
        IN  /\ auth.stage # "crashed"
            /\ auth.user # None
            /\ u.id = OrElse(b.sub, "")
            /\ u.email = OrElse(b.email, "")
            /\ u.email_verified = OrElse(b.email_verified, FALSE)
            /\ ns = None =>
                  u.claims = [tenant_id |-> None, tenant_role |-> None,
                              tenant_slug |-> None, permissions |-> <<>>,
                              plan_tier |-> None,
                              is_platform_admin |-> FALSE]
            /\ ns # None =>
                  /\ u.claims.tenant_id = Val(ns).tenant_id
                  /\ u.claims.tenant_role = Val(ns).tenant_role
                  /\ u.claims.tenant_slug = Val(ns).tenant_slug
                  /\ u.claims.plan_tier = Val(ns).plan_tier
                  /\ u.claims.permissions = OrElse(Val(ns).permissions, <<>>)
                  /\ u.claims.is_platform_admin
                        = OrElse(Val(ns).is_platform_admin, FALSE)

\* A payload with neither subject nor namespace was extracted.
C22_Witness ==
    /\ auth.stage = "extracted"
    /\ auth.token.payload.body = Body(None, None, None, None)
    /\ Val(auth.user).id = ""
    /\ Val(auth.user).claims.permissions = <<>>
    /\ ~Val(auth.user).email_verified

\* The payload with the permission list of its namespace replaced by q.
WithPermissions(payload, q) ==
    [payload EXCEPT !.body.olympus =
        Some([Val(@) EXCEPT !.permissions = Some(q)])]

\* The lists, at most one longer than list, that hold exactly its strings.
SameStrings(list) ==
    {q \in BSeq(PermissionNames, Len(list) + 1) : ListSet(q) = ListSet(list)}

\* C23: two payloads whose permission lists hold the same strings, in any
\* order and with any multiplicities, yield users for which
\* require_permission and require_any_permission give the same outcome,
\* whatever the argument: both succeed, or both fail with the same error.
C23_PermissionsAsSet ==
    ( /\ guard_out # None
      /\ guard_run \in {"require_permission", "require_any_permission"}
      /\ auth.token.payload.body.olympus # None ) =>
        \A q \in SameStrings(Val(auth.user).claims.permissions) :
            LET twin == ExtractUser(WithPermissions(auth.token.payload, q))
                mine == Val(guard_out)
                other == EvalGuard(guard_run, twin, guard_in)
            IN  /\ mine.ok = other.ok
                /\ ~mine.ok => mine = other

\* A permission held at the second place of a list with a repeated string.
C23_Witness ==
    /\ Ran("require_permission")
    /\ auth.stage = "guarded"
    /\ Val(auth.user).claims.permissions = <<"write", "read", "write">>
    /\ guard_in.permission = "read"
    /\ Val(guard_out).ok

---------------------------------------------------------------------------
(* core.py: every entry point, get_optional_user included *)

\* A request with or without a bearer token reaches a route.
InitEntry ==
    /\ LimiterIdle
    /\ KeyIdle
    /\ GuardIdle
    /\ auth \in { Request0(secret, now, token) :
                    secret \in Secrets, now \in Times,
                    token \in Tokens \cup {NoCredentials} }

\* get_optional_user, lines 101-107: None without credentials; otherwise
\* get_current_user, whose HTTPException is caught and turned into None,
\* while any other exception leaves the function.
GetOptionalUser ==
    /\ auth.stage = "received"
    /\ LET decoded == DecodeJwt(auth.secret, auth.token, auth.now)
           done == [auth EXCEPT !.stage = "returned",
                                !.steps = Append(@, "get_optional_user")]
       IN  auth' =
             IF auth.token = NoCredentials THEN done
             ELSE IF ~decoded.ok THEN done
             ELSE LET r == GetCurrentUser(decoded.payload)
                  IN  IF r.ok
                      THEN [done EXCEPT !.payload = Some(decoded.payload),
                                        !.user = Some(r.user)]
                      ELSE [done EXCEPT !.stage = "crashed",
                                        !.payload = Some(decoded.payload),
                                        !.response = Some(r)]
    /\ UNCHANGED <<requests, clock, log, pc, loc, key_in, key_out, guard_in,
                   guard_out, guard_run>>

NextEntry ==
    \/ VerifyToken
    \/ ExtractClaims
    \/ \E g \in GuardNames : GuardDependency(g)
    \/ GetOptionalUser

SpecEntry == InitEntry /\ [][NextEntry]_vars

\* C24 (as claimed): whenever token verification fails with the
\* configuration, expired-token or invalid-token error inside an entry point
\* (get_current_user, a guard dependency, get_optional_user), that same error
\* reaches the caller.
C24_VerificationErrorReachesCaller ==
    ( /\ auth.steps # <<>>
      /\ auth.token # NoCredentials
      /\ ~DecodeJwt(auth.secret, auth.token, auth.now).ok ) =>
        auth.response = Some(DecodeJwt(auth.secret, auth.token, auth.now))

\* C25 (as claimed): get_optional_user never fails: it returns the user
\* exactly when credentials are present and verification succeeds, and None
\* otherwise.
C25_OptionalUserNeverFails ==
    auth.steps = <<"get_optional_user">> =>
        /\ auth.stage = "returned"
        /\ auth.response = None
        /\ auth.user # None <=>
              /\ auth.token # NoCredentials
              /\ DecodeJwt(auth.secret, auth.token, auth.now).ok

---------------------------------------------------------------------------
(* Claims on sequences of checks *)

\* The calls of call n's key admitted in the window that ends at now of
\* call m, the boundary now - window left out as _cleanup leaves it out.
AdmittedInWindow(n, m) ==
    {i \in SameKey(n) : /\ log[i].allowed
                        /\ log[i].now <= log[m].now
                        /\ log[i].now > log[m].now - WindowOf(log[n])}

\* A key all of whose calls, up to call n, went through one call site.
OneSite(n) == \A i \in SameKey(n) : log[i].site = log[n].site

\* C26 (as claimed): for sequential checks of one key through one call
\* site, at every moment the admitted checks whose timestamps lie in the
\* window ending at that moment number at most max_requests.
C26_SlidingWindowBound ==
    \A n \in 1..Len(log) :
        OneSite(n) =>
            \A m \in SameKey(n) :
                Cardinality(AdmittedInWindow(n, m)) <= Max2(0, MaxOf(log[n]))

---------------------------------------------------------------------------
(* Two call sites created on the default "api" prefix, one caller *)

\* create_rate_limit_dependency(1000, 1) and
\* create_rate_limit_dependency(1500, 2): both on prefix "api".
SharedSites == {Site(S_api, 1000, 1), Site(S_api, 1500, 2)}

SharedRequest == Request(Some(<<"u">>), None, Some(<<"9">>))

CheckShared(site, d1, d2) ==
    RunCheck(MaxCalls + 1, site, SharedRequest, d1, d2)

NextShared ==
    \/ \E site \in SharedSites, d1, d2 \in ClockSteps :
           CheckShared(site, d1, d2)
    \/ Tick

SpecShared == Init /\ [][NextShared]_vars

\* C27: denied attempts never postpone re-admission: for a key at its limit
\* (max_requests >= 1, one call site, sequential checks), however many
\* denied checks were made, a check issued once the oldest recorded
\* timestamp has left the window (is at least one window old) is admitted.
C27_DeniedNeverPostpone ==
    Called =>
        LET n == Len(log)
            c == Last
            before == BeforeList(c)
        IN  ( /\ OneSite(n)
              /\ MaxOf(c) >= 1
              /\ Len(before) >= MaxOf(c)
              /\ before[1] <= c.now - WindowOf(c) )
            => /\ c.allowed
               /\ \A i \in SameKey(n) :
                     ~log[i].allowed =>
                        \A j \in 1..Len(requests[c.key]) :
                            requests[c.key][j] # log[i].now
                            \/ \E k \in SameKey(n) :
                                 log[k].allowed /\ log[k].now = log[i].now

\* Admitted, denied half a window later, admitted when the window is over.
C27_Witness ==
    /\ Len(log) = 3
    /\ OneSite(3)
    /\ log[1].allowed /\ log[1].now = 0
    /\ ~log[2].allowed /\ log[2].now = 500
    /\ log[3].allowed /\ log[3].now = log[1].now + WindowOf(log[3])
    /\ log[3].before = Some(<<0>>)

\* The calls of call m's key and call site admitted in the window of that
\* call site ending at now of call m.
AdmittedBySite(m) ==
    {i \in SameKey(Len(log)) :
        /\ log[i].key = log[m].key
        /\ log[i].site = log[m].site
        /\ log[i].allowed
        /\ log[i].now <= log[m].now
        /\ log[i].now > log[m].now - WindowOf(log[m])}

\* Every call so far read the same time on line 54 and on line 39.
NoDrift == \A i \in 1..Len(log) : log[i].t_cleanup = log[i].now

\* C29 (as claimed): when two call sites check one key with different
\* (window, max_requests), the checks a call site admits within any window
\* of its own never exceed its own max_requests, whatever the other call
\* site checks and prunes in between (the two clock reads of a check taken
\* at the same time).
C29_EachSiteLimitHolds ==
    NoDrift =>
        \A m \in 1..Len(log) :
            Cardinality(AdmittedBySite(m)) <= Max2(0, MaxOf(log[m]))

\* C30: after any sequence of sequential checks of a key through one call
\* site, the key's record holds at most max(0, max_requests) timestamps;
\* with max_requests <= 0 every check is denied and the record stays empty.
C30_RecordBoundedByMax ==
    \A n \in 1..Len(log) :
        ( /\ OneSite(n)
          /\ \A i \in n+1..Len(log) : log[i].key # log[n].key ) =>
            /\ Len(requests[log[n].key]) <= Max2(0, MaxOf(log[n]))
            /\ MaxOf(log[n]) <= 0 =>
                  /\ \A i \in SameKey(n) : ~log[i].allowed
                  /\ \A i \in SameKey(n) : BeforeList(log[i]) = <<>>
                  /\ requests[log[n].key] = <<>>

\* A call site that admits nothing has left its key's record empty, and a
\* key limited to two holds two timestamps.
C30_Witness ==
    /\ Len(log) = 3
    /\ \E i \in 1..3 : /\ MaxOf(log[i]) = 0
                       /\ ~log[i].allowed
                       /\ requests[log[i].key] = <<>>
    /\ \E j \in 1..3 : /\ MaxOf(log[j]) = 2
                       /\ OneSite(j)
                       /\ Len(requests[log[j].key]) = 2

\* C28 (as claimed): no lost update: however concurrent checks of one key
\* (all through one call site) interleave, the timestamp appended by an
\* admitted check stays in the key's record until it is a window old; the
\* prune step of another call never discards it.
C28_NoLostUpdate ==
    \A n \in 1..Len(log) :
        LET key == log[n].key
            fresh == {i \in SameKey(Len(log)) :
                        /\ log[i].key = key
                        /\ log[i].allowed
                        /\ clock - log[i].now < WindowOf(log[n])}
        IN  ( /\ \A i \in 1..Len(log) :
                    log[i].key = key => log[i].site = log[n].site
              /\ \A t \in Threads :
                    (pc[t] # "idle" /\ loc[t].key = key)
                        => loc[t].site = log[n].site )
            => Len(Lookup(requests, key)) >= Cardinality(fresh)

====
